---- MODULE Spec2Model ----
(***************************************************************************)
(* Document session coordinator of the Kaplan authoring front end          *)
(* (apps/frontend/src/routes/App.tsx): per-tab store of open documents,    *)
(* the open / save / close / reload flows against the remote lock and      *)
(* content services, the cross-tab "file-saved" bus and the page           *)
(* lifecycle handlers.                                                     *)
(*                                                                         *)
(* Every awaited network call is a suspension point: an async function is  *)
(* a task that sits in tasks[t] between its steps.  A setDocs updater is   *)
(* applied to the store at the point of the call.  The derived fields of   *)
(* an OpenDoc (name, lang, url) are functions of path and are left out.    *)
(***************************************************************************)
EXTENDS Integers, Sequences, FiniteSets, Bags, TLC

\* ------------------------------------------------------------------ bounds
MaxEdits == 2      \* local edits made in total (each gives a new buffer text)
MaxLocks == 2      \* locks granted by the lock service in total
MaxTasks == 2      \* async functions in flight in one tab
MaxOps   == 4      \* user and lifecycle events other than edits, in total
MaxEditsLong == 3  \* local edits made in total under SpecLong
MaxOpsFive == 5    \* user and lifecycle events in total under SpecFive

Tabs  == {"A", "B"}
Paths == {"p1"}

\* --------------------------------------------------------------- constants
CURRENT_USER_ID == "ARajuv"
OtherOwner      == "Bob"
Undefined       == "undefined"        \* activePath of an empty tab bar
Null            == <<"null">>         \* null / undefined string value
TokenChars      == <<"a", "b", "c", "d">>

\* JavaScript truthiness of a string-or-null value
Truthy(s) == s # Null /\ s # <<>>

\* ----------------------------------------------------------- pure helpers
RECURSIVE TrimLeft(_)
TrimLeft(s) == IF s # <<>> /\ Head(s) = " " THEN TrimLeft(Tail(s)) ELSE s

RECURSIVE TrimRight(_)
TrimRight(s) ==
  IF s # <<>> /\ s[Len(s)] = " " THEN TrimRight(SubSeq(s, 1, Len(s) - 1)) ELSE s

IsBracket(c) == c \in {"<", ">"}
NotBracket(c) == ~IsBracket(c)

\* t ? t.replace(/[<>]/g, '').trim() : null
normalizeToken(t) ==
  IF Truthy(t) THEN TrimRight(TrimLeft(SelectSeq(t, NotBracket))) ELSE Null

\* normalizeToken(x) || undefined
OrUndefined(s) == IF Truthy(s) THEN s ELSE Null

\* owner.trim().toLowerCase() over the owner names the lock service reports
TrimLower(o) ==
  CASE o = "ARajuv" -> "arajuv"
    [] o = "Bob"    -> "bob"
    [] OTHER        -> o

\* info.owner && info.owner.trim().toLowerCase() === CURRENT_USER_ID.toLowerCase()
LockedBySelf(info) == info.owner # "" /\ TrimLower(info.owner) = TrimLower(CURRENT_USER_ID)

\* ------------------------------------------------------------------ state
VARIABLES
  docs,          \* docs[t]: the tab's OpenDoc array (useState)
  activePath,    \* activePath[t]
  tasks,         \* tasks[t]: bag of the tab's async functions suspended at an await
  inbox,         \* inbox[t][p]: file-saved messages for p not yet handled by t
  localStorage,  \* localStorage["lock:" + p], shared by the tabs of the origin
  lock,          \* lock service: LockRecord per path
  remote,        \* content service: text per path
  serial,        \* locks granted so far
  nextText,      \* edits made so far
  ops,           \* user / lifecycle events so far
  beacons,       \* unlock beacons sent by the last step
  rejected,      \* <<function, await>> of the promise the last step rejected, or <<>>
  prompt         \* the last step raised the browser's unsaved-changes prompt

vars == <<docs, activePath, tasks, inbox, localStorage, lock, remote,
          serial, nextText, ops, beacons, rejected, prompt>>

NoLock == [locked |-> FALSE, owner |-> "", token |-> Null]

\* beaconUnlock(path, token), sent from the catch block of close ("close") or
\* from onPageHideOrUnload ("unload")
Beacon(site, t, p, tok) == [site |-> site, tab |-> t, path |-> p, token |-> tok]

Init ==
  /\ docs = [t \in Tabs |-> <<>>]
  /\ activePath = [t \in Tabs |-> Undefined]
  /\ tasks = [t \in Tabs |-> EmptyBag]
  /\ inbox = [t \in Tabs |-> [p \in Paths |-> 0]]
  /\ localStorage = [p \in Paths |-> Null]
  /\ lock = [p \in Paths |-> NoLock]
  /\ remote = [p \in Paths |-> 0]
  /\ serial = 0
  /\ nextText = 0
  /\ ops = 0
  /\ beacons = <<>>
  /\ rejected = <<>>
  /\ prompt = FALSE

\* ---------------------------------------------------------- store helpers
Indices(ds) == 1 .. Len(ds)

HasDoc(ds, p) == \E i \in Indices(ds) : ds[i].path = p

\* prev.findIndex(d => d.path === path), 0 when absent
FindIndex(ds, p) ==
  IF HasDoc(ds, p) THEN CHOOSE i \in Indices(ds) :
                          ds[i].path = p /\ \A j \in 1 .. (i - 1) : ds[j].path # p
  ELSE 0

\* docs.find(d => d.path === path); callers guard with HasDoc
Find(ds, p) == ds[FindIndex(ds, p)]

\* prev.filter(d => d.path !== path)
FilterOut(ds, p) == SelectSeq(ds, LAMBDA d : d.path # p)

\* const active = docs.find(d => d.path === activePath) ?? docs[0]
HasActive(t) == Len(docs[t]) > 0
Active(t) == IF HasDoc(docs[t], activePath[t]) THEN Find(docs[t], activePath[t])
             ELSE docs[t][1]

\* d.lockToken && !d.readOnly
HoldsLock(d) == Truthy(d.lockToken) /\ ~d.readOnly

\* ---------------------------------------------------------- async tasks
NewTask(kind, pc, p, text, tok, ro, act, targets) ==
  [kind |-> kind, pc |-> pc, path |-> p, text |-> text, token |-> tok,
   readOnly |-> ro, act |-> act, targets |-> targets]

Spawn(t, k)    == [tasks EXCEPT ![t] = @ (+) SetToBag({k})]
Finish(t, k)   == [tasks EXCEPT ![t] = @ (-) SetToBag({k})]
Step(t, k, k2) == [tasks EXCEPT ![t] = (@ (-) SetToBag({k})) (+) SetToBag({k2})]

InFlight(t) == BagToSet(tasks[t])

Room(t) == BagCardinality(tasks[t]) < MaxTasks

IsTask(t, k, kind, pc) ==
  /\ k \in InFlight(t)
  /\ k.kind = kind
  /\ k.pc = pc

\* ------------------------------------------------- remote lock service
\* POST lock: the token of the n-th lock granted.  The service hands out
\* WebDAV-style tokens "<x>"; a reply may also carry a token with nothing
\* between the brackets.
GrantedTokens(n) == { <<"<", TokenChars[n], ">">>, <<"<", ">">> }

\* POST unlock with a token: drops the lock when the token is the live one,
\* and is otherwise treated as already released.
Released(lk, p, tok) ==
  IF lk[p].locked /\ normalizeToken(lk[p].token) = tok
  THEN [lk EXCEPT ![p] = NoLock] ELSE lk

\* the beacons of bs with index in S reach the service
RECURSIVE BeaconsApplied(_, _, _)
BeaconsApplied(lk, bs, S) ==
  IF bs = <<>> THEN lk
  ELSE LET n == Len(bs)
           rest == BeaconsApplied(lk, SubSeq(bs, 1, n - 1), S)
       IN IF n \in S THEN Released(rest, bs[n].path, bs[n].token) ELSE rest

\* ------------------------------------------------------- Cross-Tab Bus
\* bus.send: bc.postMessage reaches every other tab once, and the
\* localStorage write raises a storage event in every other tab
Sent(box, t, p) ==
  [u \in Tabs |-> IF u = t THEN box[u] ELSE [box[u] EXCEPT ![p] = @ + 2]]

\* The actions below leave ops to Next, which counts the user and
\* lifecycle events.

\* ------------------------------------------------------- openInTab
NewDoc(p, text, tok, ro) ==
  [path |-> p, text |-> text, dirty |-> FALSE, stale |-> FALSE,
   readOnly |-> ro, lockToken |-> tok]

openInTabAppend(ds, p, text, tok, ro) == Append(ds, NewDoc(p, text, tok, ro))

openInTabKeepToken(ds, p, text, tok, ro) ==
  LET i == FindIndex(ds, p) IN
  IF i > 0
  THEN [ds EXCEPT ![i] = [@ EXCEPT !.text = text, !.dirty = FALSE, !.readOnly = ro]]
  ELSE Append(ds, NewDoc(p, text, tok, ro))

\* next[i] = { ...next[i], text, lang, url, dirty: false, lockToken, readOnly }
\* or [...prev, { path, name, text, lang, url, dirty: false, lockToken, readOnly }]
openInTab(ds, p, text, tok, ro) ==
  LET i == FindIndex(ds, p) IN
  IF i > 0
  THEN [ds EXCEPT ![i] = [@ EXCEPT !.text = text, !.dirty = FALSE,
                                   !.lockToken = tok, !.readOnly = ro]]
  ELSE Append(ds, NewDoc(p, text, tok, ro))

\* ------------------------------------------------------- openFilePath
ReadOnlyOpenArgsReuseToken(info) ==
  IF LockedBySelf(info)
  THEN [lockToken |-> OrUndefined(normalizeToken(info.token)), readOnly |-> FALSE]
  ELSE [lockToken |-> Null, readOnly |-> TRUE]

\* the lockToken / readOnly arguments of openInTab when lockinfo reported
\* the path locked: both branches pass (undefined, true)
ReadOnlyOpenArgs(info) ==
  IF LockedBySelf(info)
  THEN [lockToken |-> Null, readOnly |-> TRUE]
  ELSE [lockToken |-> Null, readOnly |-> TRUE]

OpenBranchAlwaysAcquire(info) == "lockPath"

\* the await openFilePath reaches after the lockinfo reply: getFile in one of
\* the two branches of if (info.locked), else lockPath
OpenBranch(info) ==
  IF info.locked
  THEN IF LockedBySelf(info) THEN "getFileSelf" ELSE "getFileOther"
  ELSE "lockPath"

\* openFilePath(p) up to its second await: lockinfo has answered, and either
\* a locked path waits for getFile or the acquire is on its way.  The pc of an
\* open task is the await it is suspended at: "getFileSelf" and "getFileOther"
\* in the two locked branches, "lockPath", and "getFile" after the acquire.
OpenFilePath(t, p) ==
  /\ Room(t)
  /\ LET info == lock[p] IN
     IF OpenBranch(info) # "lockPath"
     THEN tasks' = Spawn(t, NewTask("open", OpenBranch(info),
                                    p, 0, ReadOnlyOpenArgs(info).lockToken,
                                    ReadOnlyOpenArgs(info).readOnly, Undefined, <<>>))
     ELSE tasks' = Spawn(t, NewTask("open", "lockPath", p, 0, Null, FALSE, Undefined, <<>>))
  /\ beacons' = <<>>
  /\ rejected' = <<>>
  /\ prompt' = FALSE
  /\ UNCHANGED <<docs, activePath, inbox, localStorage, lock, remote, serial, nextText>>

AcquiredTokenOrCached(raw, cached) ==
  IF Truthy(normalizeToken(raw)) THEN normalizeToken(raw) ELSE cached

\* const token = normalizeToken(locked.token) || undefined: the token of the
\* session comes from the reply alone, whatever localStorage holds (cached)
AcquiredToken(raw, cached) == OrUndefined(normalizeToken(raw))

\* lockPath answered with a lock: normalize, writeSavedToken, start getFile
OpenAcquireOk(t, k) ==
  /\ IsTask(t, k, "open", "lockPath")
  /\ ~lock[k.path].locked
  /\ \E raw \in GrantedTokens(serial + 1) :
       LET token == AcquiredToken(raw, localStorage[k.path]) IN
       /\ lock' = [lock EXCEPT ![k.path] = [locked |-> TRUE, owner |-> CURRENT_USER_ID,
                                            token |-> raw]]
       /\ localStorage' = IF Truthy(token) THEN [localStorage EXCEPT ![k.path] = token]
                          ELSE localStorage
       /\ tasks' = Step(t, k, [k EXCEPT !.pc = "getFile", !.token = token])
  /\ serial' = serial + 1
  /\ beacons' = <<>>
  /\ rejected' = <<>>
  /\ prompt' = FALSE
  /\ UNCHANGED <<docs, activePath, inbox, remote, nextText>>

AcquireFailedDocsReadOnly(ds, p) == openInTab(ds, p, 0, Null, TRUE)

\* the throw at await lockPath skips the rest of openFilePath, openInTab
\* included: the store is not touched
AcquireFailedDocs(ds, p) == ds

\* lockPath rejected, the path having been locked after the query:
\* openFilePath throws
OpenAcquireFail(t, k) ==
  /\ IsTask(t, k, "open", "lockPath")
  /\ lock[k.path].locked
  /\ docs' = [docs EXCEPT ![t] = AcquireFailedDocs(@, k.path)]
  /\ tasks' = Finish(t, k)
  /\ beacons' = <<>>
  /\ rejected' = <<"openFilePath", "lockPath">>
  /\ prompt' = FALSE
  /\ UNCHANGED <<activePath, inbox, localStorage, lock, remote, serial, nextText>>

LockedOpen(k) == k.kind = "open" /\ k.pc \in {"getFileSelf", "getFileOther"}

IsOpenFetch(t, k) ==
  /\ k \in InFlight(t)
  /\ k.kind = "open"
  /\ k.pc \in {"getFileSelf", "getFileOther", "getFile"}

\* the locked branches end with clearSavedToken(path)
SavedTokensAfterOpen(ls, k) == IF LockedOpen(k) THEN [ls EXCEPT ![k.path] = Null] ELSE ls

\* getFile answered: openInTab, setActivePath, and clearSavedToken in the
\* locked branches
OpenFetchOk(t, k) ==
  /\ IsOpenFetch(t, k)
  /\ docs' = [docs EXCEPT ![t] = openInTab(@, k.path, remote[k.path], k.token, k.readOnly)]
  /\ activePath' = [activePath EXCEPT ![t] = k.path]
  /\ localStorage' = SavedTokensAfterOpen(localStorage, k)
  /\ tasks' = Finish(t, k)
  /\ beacons' = <<>>
  /\ rejected' = <<>>
  /\ prompt' = FALSE
  /\ UNCHANGED <<inbox, lock, remote, serial, nextText>>

\* getFile failed: openFilePath throws at the await
OpenFetchFail(t, k) ==
  /\ IsOpenFetch(t, k)
  /\ tasks' = Finish(t, k)
  /\ beacons' = <<>>
  /\ rejected' = <<"openFilePath", "getFile">>
  /\ prompt' = FALSE
  /\ UNCHANGED <<docs, activePath, inbox, localStorage, lock, remote, serial, nextText>>

\* ------------------------------------------------------- setDocText
setDocText(ds, p, text) ==
  [i \in Indices(ds) |-> IF ds[i].path = p
                         THEN [ds[i] EXCEPT !.text = text, !.dirty = TRUE] ELSE ds[i]]

\* CodeEditor onChange on the active document; every edit types a new text
Edit(t) ==
  /\ HasActive(t)
  /\ docs' = [docs EXCEPT ![t] = setDocText(@, Active(t).path, nextText + 1)]
  /\ nextText' = nextText + 1
  /\ beacons' = <<>>
  /\ rejected' = <<>>
  /\ prompt' = FALSE
  /\ UNCHANGED <<activePath, tasks, inbox, localStorage, lock, remote, serial>>

\* ------------------------------------------------------- saveActive
SaveableIfDirty(d) == d.dirty

\* if (!active || active.readOnly) return; if (!active.dirty) return
Saveable(d) == ~d.readOnly /\ d.dirty

\* saveActive up to its await: the guards on the active document, then putFile
SaveActive(t) ==
  /\ Room(t)
  /\ HasActive(t)
  /\ Saveable(Active(t))
  /\ tasks' = Spawn(t, NewTask("save", "put", Active(t).path, Active(t).text,
                               Active(t).lockToken, FALSE, Undefined, <<>>))
  /\ beacons' = <<>>
  /\ rejected' = <<>>
  /\ prompt' = FALSE
  /\ UNCHANGED <<docs, activePath, inbox, localStorage, lock, remote, serial, nextText>>

SavedDocsKeepStale(ds, p) ==
  [i \in Indices(ds) |-> IF ds[i].path = p
                         THEN [ds[i] EXCEPT !.dirty = FALSE] ELSE ds[i]]

\* d => d.path === active.path ? { ...d, dirty: false, stale: false } : d
SavedDocs(ds, p) ==
  [i \in Indices(ds) |-> IF ds[i].path = p
                         THEN [ds[i] EXCEPT !.dirty = FALSE, !.stale = FALSE] ELSE ds[i]]

\* putFile succeeded: clear dirty and stale, publish file-saved
SavePutOk(t, k) ==
  /\ IsTask(t, k, "save", "put")
  /\ remote' = [remote EXCEPT ![k.path] = k.text]
  /\ docs' = [docs EXCEPT ![t] = SavedDocs(@, k.path)]
  /\ inbox' = Sent(inbox, t, k.path)
  /\ tasks' = Finish(t, k)
  /\ beacons' = <<>>
  /\ rejected' = <<>>
  /\ prompt' = FALSE
  /\ UNCHANGED <<activePath, localStorage, lock, serial, nextText>>

FailedSaveDocsCleared(ds, p) == SavedDocs(ds, p)

\* the store after a rejected putFile: the setDocs after the await is not reached
FailedSaveDocs(ds, p) == ds

\* putFile failed: saveActive throws at the await
SavePutFail(t, k) ==
  /\ IsTask(t, k, "save", "put")
  /\ docs' = [docs EXCEPT ![t] = FailedSaveDocs(@, k.path)]
  /\ tasks' = Finish(t, k)
  /\ beacons' = <<>>
  /\ rejected' = <<"saveActive", "putFile">>
  /\ prompt' = FALSE
  /\ UNCHANGED <<activePath, inbox, localStorage, lock, remote, serial, nextText>>

\* ------------------------------------------------------- activate
\* activate(path): setActivePath(path), from a click on the tab of a session
Activate(t, p) ==
  /\ HasDoc(docs[t], p)
  /\ activePath[t] # p
  /\ activePath' = [activePath EXCEPT ![t] = p]
  /\ beacons' = <<>>
  /\ rejected' = <<>>
  /\ prompt' = FALSE
  /\ UNCHANGED <<docs, tasks, inbox, localStorage, lock, remote, serial, nextText>>

\* ------------------------------------------------------- close
\* the final setDocs of close: drop the session, and when the closed path is
\* the activePath the call captured, activate next[0]
Removed(t, p, act) ==
  LET next == FilterOut(docs[t], p) IN
  /\ docs' = [docs EXCEPT ![t] = next]
  /\ activePath' = IF p = act
                   THEN [activePath EXCEPT ![t] = IF Len(next) > 0 THEN next[1].path
                                                  ELSE Undefined]
                   ELSE activePath

SaveOfferedIfDirty(doc) == doc.dirty

\* if (doc.dirty && !doc.readOnly): the save is offered
SaveOffered(doc) == doc.dirty /\ ~doc.readOnly

\* close(p) of a session that is dirty and editable, the user confirming the
\* save: putFile is awaited
CloseSave(t, p) ==
  /\ Room(t)
  /\ HasDoc(docs[t], p)
  /\ LET doc == Find(docs[t], p) IN
     /\ SaveOffered(doc)
     /\ tasks' = Spawn(t, NewTask("close", "put", p, doc.text, doc.lockToken,
                                  doc.readOnly, activePath[t], <<>>))
  /\ beacons' = <<>>
  /\ rejected' = <<>>
  /\ prompt' = FALSE
  /\ UNCHANGED <<docs, activePath, inbox, localStorage, lock, remote, serial, nextText>>

\* close(p) with no save (clean, read-only, or the user declining) of a
\* session holding a lock token: unlockPath is awaited
CloseUnlock(t, p) ==
  /\ Room(t)
  /\ HasDoc(docs[t], p)
  /\ LET doc == Find(docs[t], p) IN
     /\ HoldsLock(doc)
     /\ tasks' = Spawn(t, NewTask("close", "unlock", p, doc.text, doc.lockToken,
                                  doc.readOnly, activePath[t], <<>>))
  /\ beacons' = <<>>
  /\ rejected' = <<>>
  /\ prompt' = FALSE
  /\ UNCHANGED <<docs, activePath, inbox, localStorage, lock, remote, serial, nextText>>

\* close(p) with no save of a session that holds no lock token or is
\* read-only: nothing is awaited, the session is dropped at once
CloseNow(t, p) ==
  /\ HasDoc(docs[t], p)
  /\ ~HoldsLock(Find(docs[t], p))
  /\ Removed(t, p, activePath[t])
  /\ beacons' = <<>>
  /\ rejected' = <<>>
  /\ prompt' = FALSE
  /\ UNCHANGED <<tasks, inbox, localStorage, lock, remote, serial, nextText>>

ReleaseDueAfterGoodSave(k, ok) == ok /\ Truthy(k.token) /\ ~k.readOnly

\* if (doc.lockToken && !doc.readOnly), reached after try { await putFile }
\* catch {} whether the save went through (ok) or not
ReleaseDue(k, ok) == Truthy(k.token) /\ ~k.readOnly

\* the save of close answered (a failure is swallowed); the close goes on to
\* unlockPath when the captured doc holds a lock token, else drops the session
ClosePutDone(t, k, ok) ==
  /\ IsTask(t, k, "close", "put")
  /\ remote' = IF ok THEN [remote EXCEPT ![k.path] = k.text] ELSE remote
  /\ IF ReleaseDue(k, ok)
     THEN /\ tasks' = Step(t, k, [k EXCEPT !.pc = "unlock"])
          /\ UNCHANGED <<docs, activePath>>
     ELSE /\ tasks' = Finish(t, k)
          /\ Removed(t, k.path, k.act)
  /\ beacons' = <<>>
  /\ rejected' = <<>>
  /\ prompt' = FALSE
  /\ UNCHANGED <<inbox, localStorage, lock, serial, nextText>>

\* unlockPath succeeded; finally clearSavedToken; drop the session
CloseReleaseOk(t, k) ==
  /\ IsTask(t, k, "close", "unlock")
  /\ lock' = Released(lock, k.path, k.token)
  /\ localStorage' = [localStorage EXCEPT ![k.path] = Null]
  /\ Removed(t, k.path, k.act)
  /\ tasks' = Finish(t, k)
  /\ beacons' = <<>>
  /\ rejected' = <<>>
  /\ prompt' = FALSE
  /\ UNCHANGED <<inbox, remote, serial, nextText>>

ReleaseFailedBeaconsNone(t, p, tok) == <<>>

\* the catch block of close: beaconUnlock(doc.path, doc.lockToken)
ReleaseFailedBeacons(t, p, tok) == <<Beacon("close", t, p, tok)>>

\* unlockPath failed; catch: beaconUnlock, which may or may not reach the
\* service; finally clearSavedToken; drop the session
CloseReleaseFail(t, k, reached) ==
  /\ IsTask(t, k, "close", "unlock")
  /\ LET bs == ReleaseFailedBeacons(t, k.path, k.token) IN
     /\ lock' = BeaconsApplied(lock, bs, IF reached THEN 1 .. Len(bs) ELSE {})
     /\ beacons' = bs
     /\ rejected' = <<>>
     /\ prompt' = FALSE
  /\ localStorage' = [localStorage EXCEPT ![k.path] = Null]
  /\ Removed(t, k.path, k.act)
  /\ tasks' = Finish(t, k)
  /\ UNCHANGED <<inbox, remote, serial, nextText>>

\* ------------------------------------------------------- refreshTab
ReloadedAsOpened(ds, p, fresh) ==
  [i \in Indices(ds) |-> IF ds[i].path = p THEN NewDoc(p, fresh, Null, ds[i].readOnly)
                         ELSE ds[i]]

ReloadedOrOpened(ds, p, fresh) ==
  IF HasDoc(ds, p)
  THEN [i \in Indices(ds) |-> IF ds[i].path = p
                              THEN [ds[i] EXCEPT !.text = fresh, !.stale = FALSE,
                                                 !.dirty = FALSE]
                              ELSE ds[i]]
  ELSE Append(ds, NewDoc(p, fresh, Null, FALSE))

\* d => d.path === path ? { ...d, text: fresh, stale: false, dirty: false } : d
Reloaded(ds, p, fresh) ==
  [i \in Indices(ds) |-> IF ds[i].path = p
                         THEN [ds[i] EXCEPT !.text = fresh, !.stale = FALSE, !.dirty = FALSE]
                         ELSE ds[i]]

\* refreshTab(p) up to its await; on a dirty doc the user has confirmed
\* (a declined confirmation returns with nothing done).  The call holds the
\* doc it found, with the text the user saw at the confirmation.
RefreshTab(t, p) ==
  /\ Room(t)
  /\ HasDoc(docs[t], p)
  /\ tasks' = Spawn(t, NewTask("refresh", "fetch", p, Find(docs[t], p).text, Null, FALSE,
                               Undefined, <<>>))
  /\ beacons' = <<>>
  /\ rejected' = <<>>
  /\ prompt' = FALSE
  /\ UNCHANGED <<docs, activePath, inbox, localStorage, lock, remote, serial, nextText>>

\* refreshTab(p) on a dirty doc, the user declining the confirmation:
\* if (!cont) return
RefreshDeclined(t, p) ==
  /\ HasDoc(docs[t], p)
  /\ Find(docs[t], p).dirty
  /\ beacons' = <<>>
  /\ rejected' = <<>>
  /\ prompt' = FALSE
  /\ UNCHANGED <<docs, activePath, tasks, inbox, localStorage, lock, remote, serial, nextText>>

\* getFile of refreshTab answered; the await is in no try block, so a
\* failure throws out of refreshTab
RefreshFetch(t, k, ok) ==
  /\ IsTask(t, k, "refresh", "fetch")
  /\ docs' = IF ok THEN [docs EXCEPT ![t] = Reloaded(@, k.path, remote[k.path])]
             ELSE docs
  /\ tasks' = Finish(t, k)
  /\ beacons' = <<>>
  /\ rejected' = IF ok THEN <<>> ELSE <<"refreshTab", "getFile">>
  /\ prompt' = FALSE
  /\ UNCHANGED <<activePath, inbox, localStorage, lock, remote, serial, nextText>>

\* ------------------------------------------------------- bus.listen handler
MarkedStaleAll(ds, p) ==
  [i \in Indices(ds) |-> IF ds[i].path = p
                         THEN [ds[i] EXCEPT !.stale = TRUE, !.dirty = FALSE] ELSE ds[i]]

MarkedStaleToggled(ds, p) ==
  [i \in Indices(ds) |-> IF ds[i].path = p /\ ds[i].dirty
                         THEN [ds[i] EXCEPT !.stale = ~@] ELSE ds[i]]

\* first setDocs of the handler: if (d.dirty) return { ...d, stale: true }
MarkedStale(ds, p) ==
  [i \in Indices(ds) |-> IF ds[i].path = p /\ ds[i].dirty
                         THEN [ds[i] EXCEPT !.stale = TRUE] ELSE ds[i]]

NeedsReloadIfOpen(ds, p) == HasDoc(ds, p)

\* needsReload: some doc of the saved path is not dirty
NeedsReload(ds, p) == \E i \in Indices(ds) : ds[i].path = p /\ ~ds[i].dirty

ReloadAppliedEditableOnly(ds, p, fresh) ==
  [i \in Indices(ds) |-> IF ds[i].path = p /\ ~ds[i].dirty /\ ~ds[i].readOnly
                         THEN [ds[i] EXCEPT !.text = fresh, !.stale = FALSE, !.dirty = FALSE]
                         ELSE ds[i]]

\* second setDocs of the handler, applied when getFile has answered:
\* d.path === targetPath && (!d.dirty || d.readOnly)
\*   ? { ...d, text: fresh, stale: false, dirty: false } : d
ReloadApplied(ds, p, fresh) ==
  [i \in Indices(ds) |-> IF ds[i].path = p /\ (~ds[i].dirty \/ ds[i].readOnly)
                         THEN [ds[i] EXCEPT !.text = fresh, !.stale = FALSE, !.dirty = FALSE]
                         ELSE ds[i]]

\* a file-saved message for p is handled by tab t
OnFileSaved(t, p) ==
  /\ inbox[t][p] > 0
  /\ inbox' = [inbox EXCEPT ![t][p] = @ - 1]
  /\ docs' = [docs EXCEPT ![t] = MarkedStale(@, p)]
  /\ IF NeedsReload(docs[t], p)
     THEN /\ Room(t)
          /\ tasks' = Spawn(t, NewTask("reload", "fetch", p, 0, Null, FALSE, Undefined, <<>>))
     ELSE tasks' = tasks
  /\ beacons' = <<>>
  /\ rejected' = <<>>
  /\ prompt' = FALSE
  /\ UNCHANGED <<activePath, localStorage, lock, remote, serial, nextText>>

\* getFile of the handler answered; a failure is swallowed
ReloadFetch(t, k, ok) ==
  /\ IsTask(t, k, "reload", "fetch")
  /\ docs' = IF ok THEN [docs EXCEPT ![t] = ReloadApplied(@, k.path, remote[k.path])]
             ELSE docs
  /\ tasks' = Finish(t, k)
  /\ beacons' = <<>>
  /\ rejected' = <<>>
  /\ prompt' = FALSE
  /\ UNCHANGED <<activePath, inbox, localStorage, lock, remote, serial, nextText>>

\* ------------------------------------------------------- refreshCleanStale
\* prev.filter(d => d.stale && !d.dirty).map(d => d.path)
StaleTargets(ds) ==
  LET hit == SelectSeq(ds, LAMBDA d : d.stale /\ ~d.dirty)
  IN [i \in 1 .. Len(hit) |-> hit[i].path]

\* focus, or visibilitychange to visible: refreshCleanStale up to its first
\* await (with no target it returns at once)
OnFocus(t) ==
  /\ Room(t)
  /\ StaleTargets(docs[t]) # <<>>
  /\ tasks' = Spawn(t, NewTask("focus", "fetch", "", 0, Null, FALSE, Undefined,
                               StaleTargets(docs[t])))
  /\ beacons' = <<>>
  /\ rejected' = <<>>
  /\ prompt' = FALSE
  /\ UNCHANGED <<docs, activePath, inbox, localStorage, lock, remote, serial, nextText>>

FocusRestStopOnFailure(k, ok) == IF ok THEN Tail(k.targets) ELSE <<>>

\* for (const p of targets) { try { ... } catch {} }: the targets left once
\* the fetch of the first one is answered, whether it went through or not
FocusRest(k, ok) == Tail(k.targets)

\* getFile of the loop answered for the first remaining target (a failure is
\* swallowed); the loop goes on to the next target
FocusFetch(t, k, ok) ==
  /\ IsTask(t, k, "focus", "fetch")
  /\ LET p == Head(k.targets) IN
     docs' = IF ok THEN [docs EXCEPT ![t] = Reloaded(@, p, remote[p])] ELSE docs
  /\ tasks' = IF FocusRest(k, ok) # <<>> THEN Step(t, k, [k EXCEPT !.targets = FocusRest(k, ok)])
              ELSE Finish(t, k)
  /\ beacons' = <<>>
  /\ rejected' = <<>>
  /\ prompt' = FALSE
  /\ UNCHANGED <<activePath, inbox, localStorage, lock, remote, serial, nextText>>

\* ------------------------------------------------------- lifecycle
UnloadBeaconsFirstOnly(t) ==
  LET held == SelectSeq(docs[t], HoldsLock)
  IN IF held = <<>> THEN <<>>
     ELSE <<Beacon("unload", t, held[1].path, held[1].lockToken)>>

\* docs.forEach(d => { if (d.lockToken && !d.readOnly) beaconUnlock(d.path, d.lockToken) })
UnloadBeacons(t) ==
  LET held == SelectSeq(docs[t], HoldsLock)
  IN [i \in 1 .. Len(held) |-> Beacon("unload", t, held[i].path, held[i].lockToken)]

UnloadPromptEditableOnly(ds) == \E i \in Indices(ds) : ds[i].dirty /\ ~ds[i].readOnly

\* if (docs.some(d => d.dirty)) { e.preventDefault(); e.returnValue = '' }
UnloadPrompt(ds) == \E i \in Indices(ds) : ds[i].dirty

\* beforeunload, in a tab showing some session, after which the page stays
\* (the prompt is cancelled, or the navigation is a download): the prompt
\* handler has run and onPageHideOrUnload has sent its beacons
BeforeUnload(t) ==
  /\ docs[t] # <<>>
  /\ beacons' = UnloadBeacons(t)
  /\ rejected' = <<>>
  /\ prompt' = UnloadPrompt(docs[t])
  /\ \E S \in SUBSET (1 .. Len(UnloadBeacons(t))) :
       lock' = BeaconsApplied(lock, UnloadBeacons(t), S)
  /\ UNCHANGED <<docs, activePath, tasks, inbox, localStorage, remote, serial, nextText>>

\* pagehide: the beacons are sent and the page is torn down; the tab starts
\* again with an empty store, and localStorage survives
PageHide(t) ==
  /\ docs[t] # <<>> \/ tasks[t] # EmptyBag
  /\ beacons' = UnloadBeacons(t)
  /\ rejected' = <<>>
  /\ prompt' = FALSE
  /\ \E S \in SUBSET (1 .. Len(UnloadBeacons(t))) :
       lock' = BeaconsApplied(lock, UnloadBeacons(t), S)
  /\ docs' = [docs EXCEPT ![t] = <<>>]
  /\ activePath' = [activePath EXCEPT ![t] = Undefined]
  /\ tasks' = [tasks EXCEPT ![t] = EmptyBag]
  /\ inbox' = [inbox EXCEPT ![t] = [p \in Paths |-> 0]]
  /\ UNCHANGED <<localStorage, remote, serial, nextText>>

\* ---------------------------------------------- other users of the service
\* a client of another owner takes the lock of an unlocked path
ForeignLock(p) ==
  /\ ~lock[p].locked
  /\ lock' = [lock EXCEPT ![p] = [locked |-> TRUE, owner |-> OtherOwner,
                                  token |-> <<"<", TokenChars[serial + 1], ">">>]]
  /\ serial' = serial + 1
  /\ beacons' = <<>>
  /\ rejected' = <<>>
  /\ prompt' = FALSE
  /\ UNCHANGED <<docs, activePath, tasks, inbox, localStorage, remote, nextText>>

\* and releases it
ForeignUnlock(p) ==
  /\ lock[p].locked /\ lock[p].owner = OtherOwner
  /\ lock' = [lock EXCEPT ![p] = NoLock]
  /\ beacons' = <<>>
  /\ rejected' = <<>>
  /\ prompt' = FALSE
  /\ UNCHANGED <<docs, activePath, tasks, inbox, localStorage, remote, serial, nextText>>

\* ------------------------------------------------------- specification
\* a user or lifecycle event, counted against MaxOps (focus events, which do
\* nothing unless a clean doc is stale, are not counted)
Counted(maxOps) == ops < maxOps /\ ops' = ops + 1

NextFor(maxEdits, maxOps) ==
  \/ \E t \in Tabs, p \in Paths : Counted(maxOps) /\ OpenFilePath(t, p)
  \/ \E t \in Tabs : \E k \in InFlight(t) : serial < MaxLocks /\ ops' = ops /\ OpenAcquireOk(t, k)
  \/ \E t \in Tabs : \E k \in InFlight(t) : ops' = ops /\ OpenAcquireFail(t, k)
  \/ \E t \in Tabs : \E k \in InFlight(t) : ops' = ops /\ OpenFetchOk(t, k)
  \/ \E t \in Tabs : \E k \in InFlight(t) : ops' = ops /\ OpenFetchFail(t, k)
  \/ \E t \in Tabs : nextText < maxEdits /\ ops' = ops /\ Edit(t)
  \/ \E t \in Tabs : Counted(maxOps) /\ SaveActive(t)
  \/ \E t \in Tabs : \E k \in InFlight(t) : ops' = ops /\ SavePutOk(t, k)
  \/ \E t \in Tabs : \E k \in InFlight(t) : ops' = ops /\ SavePutFail(t, k)
  \/ \E t \in Tabs, p \in Paths : Counted(maxOps) /\ CloseSave(t, p)
  \/ \E t \in Tabs, p \in Paths : Counted(maxOps) /\ CloseUnlock(t, p)
  \/ \E t \in Tabs, p \in Paths : Counted(maxOps) /\ CloseNow(t, p)
  \/ \E t \in Tabs : \E k \in InFlight(t), ok \in BOOLEAN : ops' = ops /\ ClosePutDone(t, k, ok)
  \/ \E t \in Tabs : \E k \in InFlight(t) : ops' = ops /\ CloseReleaseOk(t, k)
  \/ \E t \in Tabs : \E k \in InFlight(t), reached \in BOOLEAN :
       ops' = ops /\ CloseReleaseFail(t, k, reached)
  \/ \E t \in Tabs, p \in Paths : Counted(maxOps) /\ RefreshTab(t, p)
  \/ \E t \in Tabs : \E k \in InFlight(t), ok \in BOOLEAN : ops' = ops /\ RefreshFetch(t, k, ok)
  \/ \E t \in Tabs, p \in Paths : ops' = ops /\ OnFileSaved(t, p)
  \/ \E t \in Tabs : \E k \in InFlight(t), ok \in BOOLEAN : ops' = ops /\ ReloadFetch(t, k, ok)
  \/ \E t \in Tabs : ops' = ops /\ OnFocus(t)
  \/ \E t \in Tabs : \E k \in InFlight(t), ok \in BOOLEAN : ops' = ops /\ FocusFetch(t, k, ok)
  \/ \E t \in Tabs : Counted(maxOps) /\ BeforeUnload(t)
  \/ \E t \in Tabs : Counted(maxOps) /\ PageHide(t)
  \/ \E p \in Paths : serial < MaxLocks /\ ops' = ops /\ ForeignLock(p)
  \/ \E p \in Paths : Counted(maxOps) /\ ForeignUnlock(p)

NextWith(maxEdits) == NextFor(maxEdits, MaxOps)

Next == NextWith(MaxEdits)

Spec == Init /\ [][Next]_vars

\* the same system, allowed one more edit
NextLong == NextWith(MaxEditsLong)

SpecLong == Init /\ [][NextLong]_vars

\* the same system, allowed one more user or lifecycle event
NextFive == NextFor(MaxEdits, MaxOpsFive)

SpecFive == Init /\ [][NextFive]_vars

\* ------------------------------------------------------- a quiet viewer
\* The system with the user of the tabs of Quiet doing nothing but open a
\* path in an empty tab, with the bus delivering and the fetches of the
\* file-saved handler succeeding.
Quiet == {"B"}

Busy == Tabs \ Quiet

NextQuiet ==
  \/ \E t \in Tabs, p \in Paths :
       /\ Counted(MaxOps)
       /\ t \in Quiet => (docs[t] = <<>> /\ tasks[t] = EmptyBag)
       /\ OpenFilePath(t, p)
  \/ \E t \in Tabs : \E k \in InFlight(t) : serial < MaxLocks /\ ops' = ops /\ OpenAcquireOk(t, k)
  \/ \E t \in Tabs : \E k \in InFlight(t) : ops' = ops /\ OpenAcquireFail(t, k)
  \/ \E t \in Tabs : \E k \in InFlight(t) : ops' = ops /\ OpenFetchOk(t, k)
  \/ \E t \in Tabs : \E k \in InFlight(t) : ops' = ops /\ OpenFetchFail(t, k)
  \/ \E t \in Busy : nextText < MaxEdits /\ ops' = ops /\ Edit(t)
  \/ \E t \in Busy : Counted(MaxOps) /\ SaveActive(t)
  \/ \E t \in Tabs : \E k \in InFlight(t) : ops' = ops /\ SavePutOk(t, k)
  \/ \E t \in Tabs : \E k \in InFlight(t) : ops' = ops /\ SavePutFail(t, k)
  \/ \E t \in Busy, p \in Paths : Counted(MaxOps) /\ CloseSave(t, p)
  \/ \E t \in Busy, p \in Paths : Counted(MaxOps) /\ CloseUnlock(t, p)
  \/ \E t \in Busy, p \in Paths : Counted(MaxOps) /\ CloseNow(t, p)
  \/ \E t \in Tabs : \E k \in InFlight(t), ok \in BOOLEAN : ops' = ops /\ ClosePutDone(t, k, ok)
  \/ \E t \in Tabs : \E k \in InFlight(t) : ops' = ops /\ CloseReleaseOk(t, k)
  \/ \E t \in Tabs : \E k \in InFlight(t), reached \in BOOLEAN :
       ops' = ops /\ CloseReleaseFail(t, k, reached)
  \/ \E t \in Busy, p \in Paths : Counted(MaxOps) /\ RefreshTab(t, p)
  \/ \E t \in Tabs : \E k \in InFlight(t), ok \in BOOLEAN : ops' = ops /\ RefreshFetch(t, k, ok)
  \/ \E t \in Tabs, p \in Paths : ops' = ops /\ OnFileSaved(t, p)
  \/ \E t \in Tabs : \E k \in InFlight(t) : ops' = ops /\ ReloadFetch(t, k, TRUE)
  \/ \E t \in Busy : Counted(MaxOps) /\ BeforeUnload(t)
  \/ \E t \in Busy : Counted(MaxOps) /\ PageHide(t)
  \/ \E p \in Paths : serial < MaxLocks /\ ops' = ops /\ ForeignLock(p)
  \/ \E p \in Paths : Counted(MaxOps) /\ ForeignUnlock(p)

\* every message is delivered and every fetch of the handler is answered
FairQuiet ==
  /\ \A t \in Quiet :
       WF_vars(\E p \in Paths : ops' = ops /\ OnFileSaved(t, p))
  /\ \A t \in Quiet :
       WF_vars(\E k \in InFlight(t) : ops' = ops /\ ReloadFetch(t, k, TRUE))

SpecQuiet == Init /\ [][NextQuiet]_vars /\ FairQuiet

\* ------------------------------------------------------- page teardown
\* The lifecycle handlers on stores of up to two sessions over two paths.
TeardownPaths == {"p1", "p2"}

\* the token a tab was granted for a path
TeardownToken(t, p) ==
  CASE t = "A" /\ p = "p1" -> <<"a">>
    [] t = "A" /\ p = "p2" -> <<"b">>
    [] t = "B" /\ p = "p1" -> <<"c">>
    [] OTHER               -> <<"d">>

\* the sessions a tab can hold of a path: read-only without token, or
\* editable with the token it was granted or with none
TeardownDocs(t, p) ==
  { d \in [path : {p}, text : {0}, dirty : {FALSE}, stale : {FALSE},
           readOnly : BOOLEAN, lockToken : {Null, TeardownToken(t, p)}] :
      d.readOnly => d.lockToken = Null }

\* the stores of a tab: no session, one, or one of each path in either order
TeardownStores(t) ==
  {<<>>}
  \cup { <<d>> : d \in TeardownDocs(t, "p1") \cup TeardownDocs(t, "p2") }
  \cup { <<d, e>> : d \in TeardownDocs(t, "p1"), e \in TeardownDocs(t, "p2") }
  \cup { <<e, d>> : d \in TeardownDocs(t, "p1"), e \in TeardownDocs(t, "p2") }

\* the lock of a path: free, or held with the token of one of the tabs
TeardownLocks(p) ==
  {NoLock} \cup { [locked |-> TRUE, owner |-> CURRENT_USER_ID,
                   token |-> <<"<">> \o TeardownToken(t, p) \o <<">">>] : t \in Tabs }

InitTeardown ==
  /\ docs \in [Tabs -> UNION {TeardownStores(t) : t \in Tabs}]
  /\ \A t \in Tabs : docs[t] \in TeardownStores(t)
  /\ activePath = [t \in Tabs |-> Undefined]
  /\ tasks = [t \in Tabs |-> EmptyBag]
  /\ inbox = [t \in Tabs |-> [p \in Paths |-> 0]]
  /\ localStorage = [p \in TeardownPaths |-> Null]
  /\ lock \in [TeardownPaths -> UNION {TeardownLocks(p) : p \in TeardownPaths}]
  /\ \A p \in TeardownPaths : lock[p] \in TeardownLocks(p)
  /\ remote = [p \in TeardownPaths |-> 0]
  /\ serial = 0
  /\ nextText = 0
  /\ ops = 0
  /\ beacons = <<>>
  /\ rejected = <<>>
  /\ prompt = FALSE

NextTeardown ==
  \/ \E t \in Tabs : ops' = ops /\ BeforeUnload(t)
  \/ \E t \in Tabs : ops' = ops /\ PageHide(t)

SpecTeardown == InitTeardown /\ [][NextTeardown]_vars

\* ------------------------------------------------------- duplicate delivery
\* Two tabs showing the same session of a path, one receiving a file-saved
\* message once (a single channel delivers) and the other twice (both
\* channels deliver), with nothing else going on.
Once == "A"

Twice == "B"

\* the texts the content service may hold; the sessions show text 0
SavedTexts == 1 .. MaxEdits

\* a session of p1: clean or dirty, stale or not, editable with a token or
\* read-only with none
DuplicateDocs ==
  { d \in [path : Paths, text : {0}, dirty : BOOLEAN, stale : BOOLEAN,
           readOnly : BOOLEAN, lockToken : {Null, <<"a">>}] :
      d.readOnly <=> d.lockToken = Null }

InitDuplicate ==
  /\ \E ds \in {<<>>} \cup { <<d>> : d \in DuplicateDocs } : docs = [t \in Tabs |-> ds]
  /\ activePath = [t \in Tabs |-> Undefined]
  /\ tasks = [t \in Tabs |-> EmptyBag]
  /\ \E p \in Paths :
       inbox = [t \in Tabs |-> [q \in Paths |-> IF q # p THEN 0
                                                 ELSE IF t = Twice THEN 2 ELSE 1]]
  /\ localStorage = [p \in Paths |-> Null]
  /\ lock = [p \in Paths |-> NoLock]
  /\ remote \in [Paths -> SavedTexts]
  /\ serial = 0
  /\ nextText = 0
  /\ ops = 0
  /\ beacons = <<>>
  /\ rejected = <<>>
  /\ prompt = FALSE

NextDuplicate ==
  \/ \E t \in Tabs, p \in Paths : ops' = ops /\ OnFileSaved(t, p)
  \/ \E t \in Tabs : \E k \in InFlight(t) : ops' = ops /\ ReloadFetch(t, k, TRUE)

SpecDuplicate == InitDuplicate /\ [][NextDuplicate]_vars

\* every message has been handled and every fetch answered
Settled(t) == tasks[t] = EmptyBag /\ \A p \in Paths : inbox[t][p] = 0

\* ------------------------------------------------------- focus regain
\* refreshCleanStale on the stores of up to two sessions over two paths, in
\* tab A, the content service holding a saved text for each path.
FocusDocs(p) ==
  { d \in [path : {p}, text : {0}, dirty : BOOLEAN, stale : BOOLEAN,
           readOnly : BOOLEAN, lockToken : {Null, <<"a">>}] :
      d.readOnly <=> d.lockToken = Null }

FocusStores ==
  {<<>>}
  \cup { <<d>> : d \in FocusDocs("p1") \cup FocusDocs("p2") }
  \cup { <<d, e>> : d \in FocusDocs("p1"), e \in FocusDocs("p2") }
  \cup { <<e, d>> : d \in FocusDocs("p1"), e \in FocusDocs("p2") }

InitFocus ==
  /\ \E ds \in FocusStores : docs = [t \in Tabs |-> IF t = "A" THEN ds ELSE <<>>]
  /\ activePath = [t \in Tabs |-> Undefined]
  /\ tasks = [t \in Tabs |-> EmptyBag]
  /\ inbox = [t \in Tabs |-> [p \in Paths |-> 0]]
  /\ localStorage = [p \in TeardownPaths |-> Null]
  /\ lock = [p \in TeardownPaths |-> NoLock]
  /\ remote \in [TeardownPaths -> SavedTexts]
  /\ serial = 0
  /\ nextText = 0
  /\ ops = 0
  /\ beacons = <<>>
  /\ rejected = <<>>
  /\ prompt = FALSE

NextFocus ==
  \/ \E t \in Tabs : ops' = ops /\ OnFocus(t)
  \/ \E t \in Tabs : \E k \in InFlight(t), ok \in BOOLEAN : ops' = ops /\ FocusFetch(t, k, ok)

SpecFocus == InitFocus /\ [][NextFocus]_vars

\* ------------------------------------------------------- manual refresh
\* refreshTab on the stores of up to two sessions over two paths, the user
\* confirming or declining on a dirty session.
NextRefresh ==
  \/ \E t \in Tabs, p \in TeardownPaths : Counted(MaxOps) /\ RefreshTab(t, p)
  \/ \E t \in Tabs, p \in TeardownPaths : Counted(MaxOps) /\ RefreshDeclined(t, p)
  \/ \E t \in Tabs : \E k \in InFlight(t), ok \in BOOLEAN : ops' = ops /\ RefreshFetch(t, k, ok)

SpecRefresh == InitFocus /\ [][NextRefresh]_vars

\* ------------------------------------------------------- file-saved handling
\* the handler on the stores of up to two sessions over two paths in tab A,
\* with up to one message waiting for each path, the user typing meanwhile
InitSaved ==
  /\ \E ds \in FocusStores : docs = [t \in Tabs |-> IF t = "A" THEN ds ELSE <<>>]
  /\ activePath = [t \in Tabs |-> Undefined]
  /\ tasks = [t \in Tabs |-> EmptyBag]
  /\ \E box \in [TeardownPaths -> 0 .. 1] :
       inbox = [t \in Tabs |-> IF t = "A" THEN box ELSE [p \in TeardownPaths |-> 0]]
  /\ localStorage = [p \in TeardownPaths |-> Null]
  /\ lock = [p \in TeardownPaths |-> NoLock]
  /\ remote \in [TeardownPaths -> SavedTexts]
  /\ serial = 0
  /\ nextText = 0
  /\ ops = 0
  /\ beacons = <<>>
  /\ rejected = <<>>
  /\ prompt = FALSE

NextSaved ==
  \/ \E t \in Tabs, p \in TeardownPaths : ops' = ops /\ OnFileSaved(t, p)
  \/ \E t \in Tabs : \E k \in InFlight(t), ok \in BOOLEAN : ops' = ops /\ ReloadFetch(t, k, ok)
  \/ \E t \in Tabs : nextText < MaxEdits /\ ops' = ops /\ Edit(t)

SpecSaved == InitSaved /\ [][NextSaved]_vars

\* ------------------------------------------------------- closing tabs
\* close and activate on the stores of up to three sessions over three paths
\* in tab A, an editable session holding the lock of its path.
ClosePaths == {"p1", "p2", "p3"}

\* a session of p: read-only with no token, or editable with its token,
\* clean or dirty
CloseDocs(p) ==
  { d \in [path : {p}, text : {0}, dirty : BOOLEAN, stale : {FALSE},
           readOnly : BOOLEAN, lockToken : {Null, <<"a">>}] :
      /\ d.readOnly <=> d.lockToken = Null
      /\ d.readOnly => ~d.dirty }

\* the stores: sessions of distinct paths in any order
CloseStores ==
  { ds \in UNION { [1 .. n -> UNION { CloseDocs(p) : p \in ClosePaths }] : n \in 0 .. 3 } :
      \A i, j \in 1 .. Len(ds) : ds[i].path = ds[j].path => i = j }

InitClose ==
  /\ \E ds \in CloseStores : docs = [t \in Tabs |-> IF t = "A" THEN ds ELSE <<>>]
  /\ \E ap \in ClosePaths \cup {Undefined} :
       /\ ap # Undefined => HasDoc(docs["A"], ap)
       /\ ap = Undefined => docs["A"] = <<>>
       /\ activePath = [t \in Tabs |-> IF t = "A" THEN ap ELSE Undefined]
  /\ tasks = [t \in Tabs |-> EmptyBag]
  /\ inbox = [t \in Tabs |-> [p \in Paths |-> 0]]
  /\ localStorage = [p \in ClosePaths |->
                       IF HasDoc(docs["A"], p) THEN Find(docs["A"], p).lockToken ELSE Null]
  /\ lock = [p \in ClosePaths |->
               IF HasDoc(docs["A"], p) /\ HoldsLock(Find(docs["A"], p))
               THEN [locked |-> TRUE, owner |-> CURRENT_USER_ID,
                     token |-> <<"<">> \o Find(docs["A"], p).lockToken \o <<">">>]
               ELSE NoLock]
  /\ remote = [p \in ClosePaths |-> 0]
  /\ serial = 0
  /\ nextText = 0
  /\ ops = 0
  /\ beacons = <<>>
  /\ rejected = <<>>
  /\ prompt = FALSE

NextClose ==
  \/ \E t \in Tabs, p \in ClosePaths : ops' = ops /\ Activate(t, p)
  \/ \E t \in Tabs, p \in ClosePaths : ops' = ops /\ CloseSave(t, p)
  \/ \E t \in Tabs, p \in ClosePaths : ops' = ops /\ CloseUnlock(t, p)
  \/ \E t \in Tabs, p \in ClosePaths : ops' = ops /\ CloseNow(t, p)
  \/ \E t \in Tabs : \E k \in InFlight(t), ok \in BOOLEAN : ops' = ops /\ ClosePutDone(t, k, ok)
  \/ \E t \in Tabs : \E k \in InFlight(t) : ops' = ops /\ CloseReleaseOk(t, k)
  \/ \E t \in Tabs : \E k \in InFlight(t), reached \in BOOLEAN :
       ops' = ops /\ CloseReleaseFail(t, k, reached)

SpecClose == InitClose /\ [][NextClose]_vars

\* ------------------------------------------------------- overlapping reloads
\* The file-saved handler with the fetch taken apart: the content service
\* answers a getFile with the text it holds when the request reaches it, and
\* the response resolves the await some time later, so that responses can
\* overtake each other.  Tab A holds p1 editable, tab B shows it read-only.
Saver == "A"

Viewer == "B"

\* the request of the handler's getFile reaches the service
ReloadServed(t, k) ==
  /\ IsTask(t, k, "reload", "fetch")
  /\ tasks' = Step(t, k, [k EXCEPT !.pc = "response", !.text = remote[k.path]])
  /\ beacons' = <<>>
  /\ rejected' = <<>>
  /\ prompt' = FALSE
  /\ UNCHANGED <<docs, activePath, inbox, localStorage, lock, remote, serial, nextText>>

\* the response resolves the await: the second setDocs of the handler
ReloadArrived(t, k) ==
  /\ IsTask(t, k, "reload", "response")
  /\ docs' = [docs EXCEPT ![t] = ReloadApplied(@, k.path, k.text)]
  /\ tasks' = Finish(t, k)
  /\ beacons' = <<>>
  /\ rejected' = <<>>
  /\ prompt' = FALSE
  /\ UNCHANGED <<activePath, inbox, localStorage, lock, remote, serial, nextText>>

InitOverlap ==
  /\ docs = [t \in Tabs |-> IF t = Saver THEN <<NewDoc("p1", 0, <<"a">>, FALSE)>>
                            ELSE <<NewDoc("p1", 0, Null, TRUE)>>]
  /\ activePath = [t \in Tabs |-> "p1"]
  /\ tasks = [t \in Tabs |-> EmptyBag]
  /\ inbox = [t \in Tabs |-> [p \in Paths |-> 0]]
  /\ localStorage = [p \in Paths |-> Null]
  /\ lock = [p \in Paths |-> [locked |-> TRUE, owner |-> CURRENT_USER_ID,
                              token |-> <<"<", "a", ">">>]]
  /\ remote = [p \in Paths |-> 0]
  /\ serial = 1
  /\ nextText = 0
  /\ ops = 0
  /\ beacons = <<>>
  /\ rejected = <<>>
  /\ prompt = FALSE

NextOverlap ==
  \/ nextText < MaxEdits /\ ops' = ops /\ Edit(Saver)
  \/ Counted(MaxOps) /\ SaveActive(Saver)
  \/ \E k \in InFlight(Saver) : ops' = ops /\ SavePutOk(Saver, k)
  \/ \E p \in Paths : ops' = ops /\ OnFileSaved(Viewer, p)
  \/ \E k \in InFlight(Viewer) : ops' = ops /\ ReloadServed(Viewer, k)
  \/ \E k \in InFlight(Viewer) : ops' = ops /\ ReloadArrived(Viewer, k)

SpecOverlap == InitOverlap /\ [][NextOverlap]_vars

\* ------------------------------------------------------- properties

\* C1. Mutual exclusion: for every path, over all tabs, at most one session
\* is editable, that is not read-only and holding a lock token which the lock
\* service still records as the live lock of the path.
MutualExclusion ==
  \A p \in Paths :
    LET live(d) == /\ d.path = p
                   /\ HoldsLock(d)
                   /\ lock[p].locked
                   /\ normalizeToken(lock[p].token) = d.lockToken
        editable == UNION { {<<t, i>> : i \in {j \in Indices(docs[t]) : live(docs[t][j])}}
                            : t \in Tabs }
    IN Cardinality(editable) <= 1

\* two tabs both show the path as editable with a token, the lock having
\* moved on from one of them: only the other one's token is live
MutualExclusionWitness ==
  \E p \in Paths : \E t \in Tabs : \E u \in Tabs \ {t} :
    /\ HasDoc(docs[t], p) /\ HasDoc(docs[u], p)
    /\ HoldsLock(Find(docs[t], p)) /\ HoldsLock(Find(docs[u], p))
    /\ lock[p].locked
    /\ normalizeToken(lock[p].token) = Find(docs[t], p).lockToken
    /\ Find(docs[u], p).lockToken # Find(docs[t], p).lockToken

\* C2. An open whose lock query reported the path locked, by the user's own
\* id or by another owner, never calls acquire, ends with the session of the
\* path read-only and without lockToken, and with the cached token of the
\* path cleared.
LockedOpenEndsReadOnly ==
  [][\A t \in Tabs :
       /\ \A p \in Paths :
            (lock[p].locked /\ OpenFilePath(t, p)) =>
              \A k \in BagToSet(tasks'[t]) :
                k.pc = "lockPath" => CopiesIn(k, tasks'[t]) = CopiesIn(k, tasks[t])
       /\ \A k \in InFlight(t) :
            (LockedOpen(k) /\ (OpenFetchOk(t, k) \/ OpenFetchFail(t, k))) =>
              /\ serial' = serial
              /\ HasDoc(docs'[t], k.path)
              /\ Find(docs'[t], k.path).readOnly
              /\ ~Truthy(Find(docs'[t], k.path).lockToken)
              /\ localStorage'[k.path] = Null]_vars

\* C3. No silent overwrite: when a file-saved message is handled for a path
\* whose session is dirty, the handler starts no fetch and leaves the session
\* with its text, dirty and stale.
NoSilentOverwrite ==
  [][\A t \in Tabs, p \in Paths :
       OnFileSaved(t, p) =>
         \A i \in Indices(docs[t]) :
           (docs[t][i].path = p /\ docs[t][i].dirty) =>
             /\ Len(docs'[t]) = Len(docs[t])
             /\ docs'[t][i].text = docs[t][i].text
             /\ docs'[t][i].dirty
             /\ docs'[t][i].stale
             /\ tasks'[t] = tasks[t]]_vars

\* an editable session with unsaved edits has been told of another tab's save
NoSilentOverwriteWitness ==
  \E t \in Tabs : \E i \in Indices(docs[t]) :
    /\ docs[t][i].dirty /\ docs[t][i].stale /\ ~docs[t][i].readOnly
    /\ docs[t][i].text # remote[docs[t][i].path]

\* C4. Eventual consistency for clean viewers: when the fetch started by the
\* file-saved handler for a clean or read-only session succeeds, the session
\* of that path ends with the fetched text, not stale and not dirty.
CleanViewerReloaded ==
  [][\A t \in Tabs : \A k \in InFlight(t) :
       ReloadFetch(t, k, TRUE) =>
         \A i \in Indices(docs'[t]) :
           docs'[t][i].path = k.path =>
             /\ docs'[t][i].text = remote[k.path]
             /\ ~docs'[t][i].stale
             /\ ~docs'[t][i].dirty]_vars

\* C5. Token cache cleanup: once close(path) has completed, whatever the
\* session was (editable with or without a token, read-only) and whatever the
\* release call answered, localStorage has no lock-token entry for the path.
TokenCacheCleanup ==
  [][\A t \in Tabs :
       /\ \A p \in Paths : CloseNow(t, p) => localStorage'[p] = Null
       /\ \A k \in InFlight(t) :
            (\/ CloseReleaseOk(t, k)
             \/ \E reached \in BOOLEAN : CloseReleaseFail(t, k, reached)
             \/ /\ ~(Truthy(k.token) /\ ~k.readOnly)
                /\ \E ok \in BOOLEAN : ClosePutDone(t, k, ok))
            => localStorage'[k.path] = Null]_vars

\* C6. Unlock fallback on close: a failing release during close sends exactly
\* one beacon, carrying the closed session's token; a succeeding release
\* sends none; in both cases the session is removed from the store.
UnlockFallbackOnClose ==
  [][\A t \in Tabs : \A k \in InFlight(t) :
       /\ (\E reached \in BOOLEAN : CloseReleaseFail(t, k, reached)) =>
            /\ Len(beacons') = 1
            /\ beacons'[1].path = k.path
            /\ beacons'[1].token = k.token
            /\ ~HasDoc(docs'[t], k.path)
       /\ CloseReleaseOk(t, k) =>
            /\ beacons' = <<>>
            /\ rejected' = <<>>
            /\ ~HasDoc(docs'[t], k.path)]_vars

\* a close whose release failed has sent its beacon and dropped the session
UnlockFallbackOnCloseWitness ==
  /\ Len(beacons) = 1
  /\ beacons[1].site = "close"
  /\ Truthy(beacons[1].token)
  /\ ~HasDoc(docs[beacons[1].tab], beacons[1].path)

\* C7. A read-only session has no lockToken.
ReadOnlyHoldsNoToken ==
  \A t \in Tabs : \A i \in Indices(docs[t]) :
    docs[t][i].readOnly => docs[t][i].lockToken = Null

\* a read-only session of a path whose lock the user's own id holds
ReadOnlyHoldsNoTokenWitness ==
  \E t \in Tabs : \E i \in Indices(docs[t]) :
    /\ docs[t][i].readOnly
    /\ lock[docs[t][i].path].locked
    /\ LockedBySelf(lock[docs[t][i].path])

\* C8. Stale reconciliation never replaces a dirty session: when a fetch of
\* refreshCleanStale succeeds, a session of the fetched path that is dirty at
\* that moment keeps its text and its dirty flag.
ReconcileKeepsDirty ==
  [][\A t \in Tabs : \A k \in InFlight(t) :
       FocusFetch(t, k, TRUE) =>
         \A i \in Indices(docs[t]) :
           (docs[t][i].path = Head(k.targets) /\ docs[t][i].dirty) =>
             /\ docs'[t][i].text = docs[t][i].text
             /\ docs'[t][i].dirty]_vars

\* C9. A tab's store holds at most one session per path.
OneSessionPerPath ==
  \A t \in Tabs : \A i \in Indices(docs[t]) : \A j \in Indices(docs[t]) :
    docs[t][i].path = docs[t][j].path => i = j

\* an open of a path that was already open has replaced the session in place:
\* only openInTab leaves a session stale and not dirty
OneSessionPerPathWitness ==
  \E t \in Tabs : \E i \in Indices(docs[t]) :
    docs[t][i].stale /\ ~docs[t][i].dirty

\* C10. Whenever a tab issues an unlock for a path, by the awaited release or
\* by a beacon (that of page hide / unload included), the cached token of the
\* path is cleared.
UnlockClearsCache ==
  [][/\ \A j \in 1 .. Len(beacons') : localStorage'[beacons'[j].path] = Null
     /\ \A t \in Tabs : \A k \in InFlight(t) :
          (CloseReleaseOk(t, k) \/ \E reached \in BOOLEAN : CloseReleaseFail(t, k, reached))
          => localStorage'[k.path] = Null]_vars

\* C11. An edit applied to a read-only session is a no-op, so a read-only
\* session is never dirty.
ReadOnlyNeverDirty ==
  \A t \in Tabs : \A i \in Indices(docs[t]) :
    docs[t][i].readOnly => ~docs[t][i].dirty

TeardownBeaconsEveryLock ==
  [][\A t \in Tabs :
       (BeforeUnload(t) \/ PageHide(t)) =>
         /\ \A i \in Indices(docs[t]) :
              (Truthy(docs[t][i].lockToken) /\ ~docs[t][i].readOnly) =>
                \E j \in 1 .. Len(beacons') :
                  /\ beacons'[j].path = docs[t][i].path
                  /\ beacons'[j].token = docs[t][i].lockToken
         /\ \A j \in 1 .. Len(beacons') :
              \E i \in Indices(docs[t]) :
                /\ Truthy(docs[t][i].lockToken) /\ ~docs[t][i].readOnly
                /\ beacons'[j].path = docs[t][i].path
                /\ beacons'[j].token = docs[t][i].lockToken
         /\ Len(beacons') <= Len(docs[t])]_vars

\* a cancelled unload of a tab with two lock-holding sessions has sent both
\* beacons, and the other tab shows sessions that get none
TeardownBeaconsEveryLockWitness ==
  /\ Len(beacons) = 2
  /\ beacons[1].path # beacons[2].path
  /\ Len(docs[beacons[1].tab]) = 2
  /\ \E u \in Tabs \ {beacons[1].tab} :
       /\ Len(docs[u]) = 2
       /\ \A i \in Indices(docs[u]) : ~HoldsLock(docs[u][i])

\* C16. A cached token is never used as a credential: a tab comes to hold a
\* token for a path (in a session, or captured by a save or a close) only as
\* the token of the reply to its own successful acquire for that path, and
\* the tokens it sends in beacons are tokens it holds.
CredentialsComeFromAcquire ==
  [][\A t \in Tabs :
       LET held(ds, ks) ==
             { <<ds[i].path, ds[i].lockToken>> : i \in Indices(ds) }
             \cup { <<k.path, k.token>> : k \in BagToSet(ks) }
       IN /\ \A h \in held(docs'[t], tasks'[t]) \ held(docs[t], tasks[t]) :
               \/ h[2] = Null
               \/ \E k \in InFlight(t) :
                    /\ k.kind = "open" /\ k.pc = "lockPath" /\ k.path = h[1]
                    /\ ~lock[h[1]].locked /\ lock'[h[1]].locked
                    /\ lock'[h[1]].owner = CURRENT_USER_ID
                    /\ h[2] = normalizeToken(lock'[h[1]].token)
          /\ \A j \in 1 .. Len(beacons') :
               beacons'[j].tab = t =>
                 <<beacons'[j].path, beacons'[j].token>> \in held(docs[t], tasks[t])]_vars

\* a tab shows a path editable without a token, its acquire having returned
\* none, while localStorage holds a token for the path
CredentialsComeFromAcquireWitness ==
  \E t \in Tabs : \E i \in Indices(docs[t]) :
    /\ ~docs[t][i].readOnly
    /\ docs[t][i].lockToken = Null
    /\ Truthy(localStorage[docs[t][i].path])

\* C17. End-to-end propagation: when a tab whose user does nothing holds a
\* path read-only and a file-saved message for the path waits for it, the
\* bus delivering and the fetch succeeding, its text comes to equal the saved
\* text the content service holds, unless that has been replaced by a later
\* save in the meantime.
SavePropagatesToViewer ==
  \A t \in Quiet : \A p \in Paths : \A v \in 1 .. MaxEdits :
    (/\ HasDoc(docs[t], p)
     /\ Find(docs[t], p).readOnly
     /\ inbox[t][p] > 0
     /\ remote[p] = v)
    ~> (\/ remote[p] # v
        \/ /\ HasDoc(docs[t], p)
           /\ Find(docs[t], p).text = v
           /\ ~Find(docs[t], p).dirty /\ ~Find(docs[t], p).stale)

\* the viewer shows the text another tab, which holds the path editable, saved,
\* with every message handled and every fetch answered
SavePropagatesToViewerWitness ==
  \E t \in Quiet : \E u \in Busy : \E p \in Paths :
    /\ HasDoc(docs[t], p) /\ Find(docs[t], p).readOnly
    /\ HasDoc(docs[u], p) /\ HoldsLock(Find(docs[u], p))
    /\ Find(docs[t], p).text = remote[p] /\ remote[p] > 0
    /\ Find(docs[u], p).text = remote[p]
    /\ inbox[t][p] = 0 /\ tasks[t] = EmptyBag

\* C18. When the acquire of openFilePath fails because the lock was taken
\* between the query and the acquire, the path is opened read-only: a session
\* of the path exists afterwards with readOnly = true and no lockToken.
AcquireFailureOpensReadOnly ==
  [][\A t \in Tabs : \A k \in InFlight(t) :
       OpenAcquireFail(t, k) =>
         /\ HasDoc(docs'[t], k.path)
         /\ Find(docs'[t], k.path).readOnly
         /\ Find(docs'[t], k.path).lockToken = Null]_vars

\* C19. A losing acquire ends openFilePath with an error: the promise is
\* rejected at the acquire and the function goes no further, the losing tab's
\* store is as it was (no session is created or made editable, no lockToken
\* is taken), no cache entry is written, and the lock stays the winner's.
LosingAcquireIsAnError ==
  [][\A t \in Tabs : \A k \in InFlight(t) :
       OpenAcquireFail(t, k) =>
         /\ rejected' = <<"openFilePath", "lockPath">>
         /\ tasks'[t] = tasks[t] (-) SetToBag({k})
         /\ ~Truthy(k.token)
         /\ docs' = docs
         /\ localStorage' = localStorage
         /\ lock' = lock]_vars

\* two tabs raced on an unlocked path: the acquire of one has just been
\* rejected and it shows no session of the path, the other has the lock's
\* token in its open or in its session
LosingAcquireIsAnErrorWitness ==
  /\ rejected = <<"openFilePath", "lockPath">>
  /\ \E p \in Paths : \E t \in Tabs : \E u \in Tabs \ {t} :
       /\ ~HasDoc(docs[t], p)
       /\ \A k \in InFlight(t) : k.path # p
       /\ lock[p].locked
       /\ LockedBySelf(lock[p])
       /\ Truthy(normalizeToken(lock[p].token))
       /\ localStorage[p] = normalizeToken(lock[p].token)
       /\ \/ \E k \in InFlight(u) :
               k.kind = "open" /\ k.path = p /\ k.token = normalizeToken(lock[p].token)
          \/ /\ HasDoc(docs[u], p)
             /\ HoldsLock(Find(docs[u], p))
             /\ Find(docs[u], p).lockToken = normalizeToken(lock[p].token)

\* C20. A failed content fetch of refreshTab, of the file-saved handler or of
\* refreshCleanStale rejects no promise, and leaves the store (each session's
\* text, dirty, stale and lockToken) as it was.
TransportFailuresSwallowed ==
  [][\A t \in Tabs : \A k \in InFlight(t) :
       (RefreshFetch(t, k, FALSE) \/ ReloadFetch(t, k, FALSE) \/ FocusFetch(t, k, FALSE)) =>
         /\ rejected' = <<>>
         /\ docs' = docs]_vars

\* C21. A failed cross-tab reload is retried on the next trigger: when the
\* refetch started by the file-saved handler for a session that is not dirty
\* fails, the session is among those the next focus or visibility-regain
\* event refetches.
FailedReloadRetriedOnFocus ==
  [][\A t \in Tabs : \A k \in InFlight(t) :
       (/\ ReloadFetch(t, k, FALSE)
        /\ HasDoc(docs[t], k.path)
        /\ ~Find(docs[t], k.path).dirty) =>
         \E i \in Indices(StaleTargets(docs'[t])) : StaleTargets(docs'[t])[i] = k.path]_vars

\* C22. The file-saved handler is idempotent under duplicate delivery: with
\* the remote content fixed and the fetches answered, a tab that handled the
\* message twice ends with the same store as a tab that started with the same
\* store and handled it once, whether the session is dirty, clean or
\* read-only and however the second delivery falls around the first reload.
DuplicateDeliveryIdempotent ==
  (Settled(Once) /\ Settled(Twice)) => docs[Once] = docs[Twice]

\* both tabs have settled on a clean session that was reloaded
DuplicateDeliveryIdempotentWitness ==
  /\ Settled(Once) /\ Settled(Twice)
  /\ \E p \in Paths :
       /\ HasDoc(docs[Twice], p)
       /\ Find(docs[Twice], p).text = remote[p]
       /\ Find(docs[Twice], p).text # 0
       /\ ~Find(docs[Twice], p).dirty

\* C23. Open on an unlocked path goes in order: the acquire is started only
\* by an open whose query reported the path unlocked, and nothing is cached
\* by then; the content fetch is started only by a granted acquire, the lock
\* then being the caller's with the token the open carries, and the cache is
\* written in that step with the normalized token (a token that normalizes to
\* nothing counts as no token and is not cached); the answered fetch creates
\* the session with readOnly = false, dirty = false, the fetched text, and
\* that token as lockToken.
OpenStepsInOrder ==
  [][\A t \in Tabs :
       /\ \A k \in BagToSet(tasks'[t]) :
            (/\ k.kind = "open" /\ k.pc = "lockPath"
             /\ CopiesIn(k, tasks'[t]) > CopiesIn(k, tasks[t])) =>
              /\ OpenFilePath(t, k.path)
              /\ ~lock[k.path].locked
              /\ localStorage' = localStorage
              /\ docs' = docs
       /\ \A k \in BagToSet(tasks'[t]) :
            (/\ k.kind = "open" /\ k.pc = "getFile"
             /\ CopiesIn(k, tasks'[t]) > CopiesIn(k, tasks[t])) =>
              /\ \E j \in InFlight(t) : j.pc = "lockPath" /\ j.path = k.path /\ OpenAcquireOk(t, j)
              /\ ~lock[k.path].locked
              /\ lock'[k.path].locked
              /\ lock'[k.path].owner = CURRENT_USER_ID
              /\ k.token = OrUndefined(normalizeToken(lock'[k.path].token))
              /\ ~k.readOnly
              /\ IF Truthy(k.token) THEN localStorage'[k.path] = k.token
                 ELSE localStorage' = localStorage
              /\ docs' = docs
       /\ \A k \in InFlight(t) :
            (k.kind = "open" /\ k.pc = "getFile" /\ OpenFetchOk(t, k)) =>
              /\ HasDoc(docs'[t], k.path)
              /\ Find(docs'[t], k.path).text = remote[k.path]
              /\ ~Find(docs'[t], k.path).readOnly
              /\ ~Find(docs'[t], k.path).dirty
              /\ Find(docs'[t], k.path).lockToken = k.token
              /\ lock' = lock]_vars

\* an open of an unlocked path has run to its end: the tab shows the session
\* editable and clean with the token of the live lock, which is also cached
OpenStepsInOrderWitness ==
  \E t \in Tabs : \E p \in Paths :
    /\ tasks[t] = EmptyBag
    /\ HasDoc(docs[t], p)
    /\ ~Find(docs[t], p).readOnly
    /\ ~Find(docs[t], p).dirty
    /\ Find(docs[t], p).text = remote[p]
    /\ lock[p].locked
    /\ lock[p].owner = CURRENT_USER_ID
    /\ Truthy(Find(docs[t], p).lockToken)
    /\ Find(docs[t], p).lockToken = normalizeToken(lock[p].token)
    /\ localStorage[p] = Find(docs[t], p).lockToken
    /\ activePath[t] = p

\* C24. Close of a dirty editable session goes in order.  With the save
\* confirmed the write is issued first and nothing is released or removed
\* until it is answered; its answer, good or bad, raises no error and is
\* followed, for a session holding a lock token, by the release call, and
\* otherwise by the removal of the session.  With the save declined nothing
\* is written, and a session holding a lock token goes to the release call.
\* The answered release, good or bad, leaves no cache entry and no session
\* of the path.
CloseStepsInOrder ==
  [][\A t \in Tabs :
       /\ \A p \in Paths :
            CloseSave(t, p) =>
              /\ \E k \in BagToSet(tasks'[t]) :
                   /\ k.kind = "close" /\ k.pc = "put" /\ k.path = p
                   /\ k.text = Find(docs[t], p).text
                   /\ CopiesIn(k, tasks'[t]) > CopiesIn(k, tasks[t])
              /\ lock' = lock /\ localStorage' = localStorage
              /\ docs' = docs /\ remote' = remote
       /\ \A k \in InFlight(t) : \A ok \in BOOLEAN :
            (k.kind = "close" /\ k.pc = "put" /\ ClosePutDone(t, k, ok)) =>
              /\ rejected' = <<>>
              /\ lock' = lock /\ localStorage' = localStorage
              /\ IF Truthy(k.token) /\ ~k.readOnly
                 THEN /\ tasks'[t] = (tasks[t] (-) SetToBag({k}))
                                       (+) SetToBag({[k EXCEPT !.pc = "unlock"]})
                      /\ docs' = docs
                 ELSE /\ tasks'[t] = tasks[t] (-) SetToBag({k})
                      /\ ~HasDoc(docs'[t], k.path)
       /\ \A p \in Paths :
            (/\ HasDoc(docs[t], p)
             /\ Find(docs[t], p).dirty /\ ~Find(docs[t], p).readOnly
             /\ CloseUnlock(t, p) \/ CloseNow(t, p)) =>
              /\ remote' = remote
              /\ \A k \in BagToSet(tasks'[t]) :
                   CopiesIn(k, tasks'[t]) > CopiesIn(k, tasks[t]) =>
                     k.kind = "close" /\ k.pc = "unlock" /\ k.path = p
                       /\ k.token = Find(docs[t], p).lockToken
              /\ IF HoldsLock(Find(docs[t], p))
                 THEN tasks'[t] # tasks[t] /\ docs' = docs
                 ELSE tasks' = tasks /\ ~HasDoc(docs'[t], p)
       /\ \A k \in InFlight(t) : \A reached \in BOOLEAN :
            (k.kind = "close" /\ k.pc = "unlock"
               /\ (CloseReleaseOk(t, k) \/ CloseReleaseFail(t, k, reached))) =>
              /\ rejected' = <<>>
              /\ remote' = remote
              /\ localStorage'[k.path] = Null
              /\ ~HasDoc(docs'[t], k.path)
              /\ tasks'[t] = tasks[t] (-) SetToBag({k})]_vars

\* the close of a dirty editable session is at its release call with the
\* text unwritten (the save was declined, or was rejected and swallowed):
\* the session is still shown and the lock still held with its token
CloseStepsInOrderWitness ==
  \E t \in Tabs : \E k \in InFlight(t) :
    /\ k.kind = "close" /\ k.pc = "unlock"
    /\ HasDoc(docs[t], k.path)
    /\ Find(docs[t], k.path).dirty
    /\ ~Find(docs[t], k.path).readOnly
    /\ Find(docs[t], k.path).text = k.text
    /\ remote[k.path] # k.text
    /\ lock[k.path].locked
    /\ normalizeToken(lock[k.path].token) = k.token
    /\ localStorage[k.path] = k.token

\* C25. Focus or visibility regain takes as targets exactly the paths of the
\* sessions that are stale and not dirty and fetches them one after another.
\* An answered fetch gives the session of its path the fetched text with
\* stale = false and leaves the others alone; a failed fetch rejects nothing
\* and changes nothing, so a session that was a target is a target of the
\* next focus event; either way the loop goes on with the remaining targets.
FocusRefetchesStale ==
  [][\A t \in Tabs :
       /\ OnFocus(t) =>
            /\ docs' = docs
            /\ \E k \in BagToSet(tasks'[t]) :
                 /\ tasks'[t] = tasks[t] (+) SetToBag({k})
                 /\ k.kind = "focus"
                 /\ \A p \in TeardownPaths :
                      (\E i \in Indices(docs[t]) :
                         docs[t][i].path = p /\ docs[t][i].stale /\ ~docs[t][i].dirty)
                      <=> (\E j \in 1 .. Len(k.targets) : k.targets[j] = p)
                 /\ \A i, j \in 1 .. Len(k.targets) : k.targets[i] = k.targets[j] => i = j
       /\ \A k \in InFlight(t) : \A ok \in BOOLEAN :
            (k.kind = "focus" /\ FocusFetch(t, k, ok)) =>
              LET p == Head(k.targets) IN
              /\ rejected' = <<>>
              /\ Len(docs'[t]) = Len(docs[t])
              /\ \A i \in Indices(docs[t]) :
                   IF ok /\ docs[t][i].path = p
                   THEN /\ docs'[t][i].text = remote[p]
                        /\ ~docs'[t][i].stale
                        /\ docs'[t][i].path = p
                        /\ docs'[t][i].lockToken = docs[t][i].lockToken
                        /\ docs'[t][i].readOnly = docs[t][i].readOnly
                   ELSE docs'[t][i] = docs[t][i]
              /\ (~ok /\ \E i \in Indices(docs[t]) :
                          docs[t][i].path = p /\ docs[t][i].stale /\ ~docs[t][i].dirty) =>
                   \E j \in Indices(StaleTargets(docs'[t])) : StaleTargets(docs'[t])[j] = p
              /\ IF Len(k.targets) > 1
                 THEN tasks'[t] = (tasks[t] (-) SetToBag({k}))
                                    (+) SetToBag({[k EXCEPT !.targets = Tail(k.targets)]})
                 ELSE tasks'[t] = tasks[t] (-) SetToBag({k})]_vars

\* of two stale clean sessions the first one's fetch has failed, leaving it
\* stale with its old text, and the loop is at the fetch of the second
FocusRefetchesStaleWitness ==
  \E t \in Tabs : \E k \in InFlight(t) :
    /\ k.kind = "focus"
    /\ Len(docs[t]) = 2
    /\ k.targets = <<docs[t][2].path>>
    /\ docs[t][1].stale /\ ~docs[t][1].dirty /\ docs[t][1].text # remote[docs[t][1].path]
    /\ docs[t][2].stale /\ ~docs[t][2].dirty
    /\ BagCardinality(tasks[t]) = 1

\* C26. Manual refresh: declined on a dirty session it fetches nothing and
\* changes nothing; otherwise it starts one fetch and changes nothing until
\* the answer, and the answered fetch gives the session of the path the
\* fetched text with dirty = false and stale = false, its lockToken and
\* readOnly and every other session staying as they were.
ManualRefresh ==
  [][\A t \in Tabs :
       /\ \A p \in TeardownPaths :
            RefreshDeclined(t, p) =>
              docs' = docs /\ tasks' = tasks /\ remote' = remote
       /\ \A p \in TeardownPaths :
            RefreshTab(t, p) =>
              /\ docs' = docs
              /\ \E k \in BagToSet(tasks'[t]) :
                   /\ tasks'[t] = tasks[t] (+) SetToBag({k})
                   /\ k.kind = "refresh" /\ k.path = p
       /\ \A k \in InFlight(t) :
            (k.kind = "refresh" /\ RefreshFetch(t, k, TRUE)) =>
              /\ Len(docs'[t]) = Len(docs[t])
              /\ \A i \in Indices(docs[t]) :
                   IF docs[t][i].path = k.path
                   THEN /\ docs'[t][i].text = remote[k.path]
                        /\ ~docs'[t][i].dirty
                        /\ ~docs'[t][i].stale
                        /\ docs'[t][i].path = k.path
                        /\ docs'[t][i].lockToken = docs[t][i].lockToken
                        /\ docs'[t][i].readOnly = docs[t][i].readOnly
                   ELSE docs'[t][i] = docs[t][i]]_vars

\* a refresh has replaced the text of an editable session that holds a lock
\* token, next to a dirty stale session of the other path left as it was
ManualRefreshWitness ==
  \E t \in Tabs :
    /\ tasks[t] = EmptyBag
    /\ Len(docs[t]) = 2
    /\ \E i, j \in Indices(docs[t]) :
         /\ docs[t][i].text = remote[docs[t][i].path]
         /\ ~docs[t][i].dirty /\ ~docs[t][i].stale
         /\ HoldsLock(docs[t][i])
         /\ docs[t][j].dirty /\ docs[t][j].stale /\ docs[t][j].text = 0

\* C27. The before-unload handler raises the unsaved-changes prompt exactly
\* when some session of the tab's store, as it is at the event, is dirty; no
\* other step raises it.
PromptIffDirty ==
  [][/\ \A t \in Tabs :
          BeforeUnload(t) => (prompt' <=> \E i \in Indices(docs[t]) : docs[t][i].dirty)
     /\ prompt' => \E t \in Tabs : BeforeUnload(t)]_vars

\* the prompt has been raised for a tab whose only dirty session is read-only
PromptIffDirtyWitness ==
  /\ prompt
  /\ \E t \in Tabs :
       /\ beacons = UnloadBeacons(t)
       /\ \E i \in Indices(docs[t]) : docs[t][i].dirty /\ docs[t][i].readOnly
       /\ \A i \in Indices(docs[t]) : docs[t][i].dirty => docs[t][i].readOnly
       /\ \A u \in Tabs \ {t} : \A i \in Indices(docs[u]) : ~docs[u][i].dirty

\* C28. Where close(path) removes the session the tab shows as active, the
\* tab afterwards shows as active a session of the store if there is one and
\* none if the store is empty; where it removes another session, the session
\* shown as active stays the same.
ActiveAfterClose ==
  [][\A t \in Tabs : \A p \in ClosePaths :
       (/\ HasDoc(docs[t], p)
        /\ \/ CloseNow(t, p)
           \/ \E k \in InFlight(t) :
                /\ k.kind = "close" /\ k.path = p
                /\ \/ \E ok \in BOOLEAN : ClosePutDone(t, k, ok) /\ ~HasDoc(docs'[t], p)
                   \/ CloseReleaseOk(t, k)
                   \/ \E reached \in BOOLEAN : CloseReleaseFail(t, k, reached)) =>
         IF Active(t).path = p
         THEN /\ HasActive(t)' <=> docs'[t] # <<>>
              /\ HasActive(t)' => HasDoc(docs'[t], Active(t)'.path)
         ELSE HasActive(t)' /\ Active(t)' = Active(t)]_vars

\* C29. No lock is orphaned by an open: when an open of a path ends in a tab
\* that holds the path editable with the token the lock service records, and
\* the lock is still recorded after the step, then the session still holds
\* the token, or a close of the tab is carrying it to its unlock call, or an
\* unlock beacon with it has been sent.
NoLockOrphanedByOpen ==
  [][\A t \in Tabs : \A k \in InFlight(t) :
       (/\ OpenFetchOk(t, k)
        /\ HasDoc(docs[t], k.path)
        /\ HoldsLock(Find(docs[t], k.path))
        /\ lock[k.path].locked
        /\ normalizeToken(lock[k.path].token) = Find(docs[t], k.path).lockToken
        /\ lock'[k.path] = lock[k.path]) =>
         \/ /\ HasDoc(docs'[t], k.path)
            /\ Find(docs'[t], k.path).lockToken = Find(docs[t], k.path).lockToken
         \/ \E c \in BagToSet(tasks'[t]) :
              /\ c.kind = "close" /\ c.path = k.path
              /\ c.token = Find(docs[t], k.path).lockToken
         \/ \E j \in 1 .. Len(beacons') :
              /\ beacons'[j].path = k.path
              /\ beacons'[j].token = Find(docs[t], k.path).lockToken]_vars

\* C30. A failed open leaves nothing behind: when the content fetch that
\* follows a granted acquire fails, then after the step either the lock
\* service does not record the lock granted to the open and no token is
\* cached for the path, or the tab shows a session of the path that holds
\* the granted token.
FailedOpenLeavesNothing ==
  [][\A t \in Tabs : \A k \in InFlight(t) :
       (k.kind = "open" /\ k.pc = "getFile" /\ OpenFetchFail(t, k)) =>
         \/ /\ ~(/\ lock'[k.path].locked
                 /\ lock'[k.path].owner = CURRENT_USER_ID
                 /\ OrUndefined(normalizeToken(lock'[k.path].token)) = k.token)
            /\ localStorage'[k.path] = Null
         \/ /\ HasDoc(docs'[t], k.path)
            /\ HoldsLock(Find(docs'[t], k.path))
            /\ Find(docs'[t], k.path).lockToken = k.token]_vars

\* C31. A tab never releases the lock of a session it keeps editable: after
\* a step in which a tab's release call is answered or a tab sends an unlock
\* beacon for a path (on a failed release, on pagehide, or on a beforeunload
\* after which the page stays), the tab shows no session of the path that is
\* editable with that lock token.
NoReleaseOfKeptSession ==
  [][/\ \A j \in 1 .. Len(beacons') :
          ~(/\ HasDoc(docs'[beacons'[j].tab], beacons'[j].path)
            /\ HoldsLock(Find(docs'[beacons'[j].tab], beacons'[j].path))
            /\ Find(docs'[beacons'[j].tab], beacons'[j].path).lockToken = beacons'[j].token)
     /\ \A t \in Tabs : \A k \in InFlight(t) :
          CloseReleaseOk(t, k) =>
            ~(/\ HasDoc(docs'[t], k.path)
              /\ HoldsLock(Find(docs'[t], k.path))
              /\ Find(docs'[t], k.path).lockToken = k.token)]_vars

\* C32. The dirty flag tracks unsaved edits: a step that leaves a session
\* with dirty = false leaves it with the text just written (an answered
\* save) or just fetched (an answered open, refresh, reload or focus fetch),
\* also when the session was edited while the call was in flight.
DirtyTracksUnsavedEdits ==
  [][\A t \in Tabs : \A k \in InFlight(t) :
       /\ (/\ SavePutOk(t, k)
           /\ HasDoc(docs'[t], k.path)
           /\ ~Find(docs'[t], k.path).dirty) =>
            Find(docs'[t], k.path).text = k.text
       /\ (/\ \/ OpenFetchOk(t, k)
              \/ RefreshFetch(t, k, TRUE)
              \/ ReloadFetch(t, k, TRUE)
           /\ HasDoc(docs[t], k.path)
           /\ Find(docs[t], k.path).dirty
           /\ ~Find(docs'[t], k.path).dirty) =>
            Find(docs'[t], k.path).text = remote[k.path]
       /\ (/\ FocusFetch(t, k, TRUE)
           /\ HasDoc(docs[t], Head(k.targets))
           /\ Find(docs[t], Head(k.targets)).dirty
           /\ ~Find(docs'[t], Head(k.targets)).dirty) =>
            Find(docs'[t], Head(k.targets)).text = remote[Head(k.targets)]]_vars

\* C33. Every successful content write of a tab, from saveActive or from the
\* save of close, publishes a file-saved message for the path: the step in
\* which the write is answered sends the message to every other tab.
EveryWritePublishes ==
  [][\A t \in Tabs : \A k \in InFlight(t) :
       (SavePutOk(t, k) \/ (k.kind = "close" /\ ClosePutDone(t, k, TRUE))) =>
         \A u \in Tabs \ {t} : inbox'[u][k.path] > inbox[u][k.path]]_vars

\* C34. Convergence under overlapping reloads: once the viewer has handled
\* every file-saved message and every response of its fetches has been
\* applied, no save being under way, its session of the path, when not
\* stale, shows the text the content service holds.
OverlappingReloadsConverge ==
  (/\ Settled(Viewer)
   /\ tasks[Saver] = EmptyBag) =>
    \A i \in Indices(docs[Viewer]) :
      ~docs[Viewer][i].stale => docs[Viewer][i].text = remote[docs[Viewer][i].path]

\* C35. A manual refresh never discards edits the user did not agree to
\* discard: when the fetched content is applied to a session that is dirty
\* with a text typed after the refresh was called, the session keeps that
\* text or stays dirty.
RefreshKeepsLaterEdits ==
  [][\A t \in Tabs : \A k \in InFlight(t) :
       (/\ k.kind = "refresh"
        /\ RefreshFetch(t, k, TRUE)
        /\ HasDoc(docs[t], k.path)
        /\ Find(docs[t], k.path).dirty
        /\ Find(docs[t], k.path).text # k.text) =>
         \/ Find(docs'[t], k.path).text = Find(docs[t], k.path).text
         \/ Find(docs'[t], k.path).dirty]_vars

\* C36. A closed session is never re-created by a late response: when the
\* fetch of a manual refresh, of the file-saved handler or of the focus loop
\* is answered or fails in a tab that has no session of its path any more,
\* the store stays as it is.
LateResponseAddsNoSession ==
  [][\A t \in Tabs : \A k \in InFlight(t) : \A ok \in BOOLEAN :
       /\ (/\ RefreshFetch(t, k, ok) \/ ReloadFetch(t, k, ok)
           /\ ~HasDoc(docs[t], k.path)) => docs' = docs
       /\ (/\ FocusFetch(t, k, ok)
           /\ ~HasDoc(docs[t], Head(k.targets))) => docs' = docs]_vars

\* the focus loop is waiting for the content of a path whose session the tab
\* has closed in the meantime
LateResponseAddsNoSessionWitness ==
  \E t \in Tabs : \E k \in InFlight(t) :
    /\ k.kind = "focus"
    /\ ~HasDoc(docs[t], Head(k.targets))

FileSavedFrame ==
  [][\A t \in Tabs :
       /\ \A p \in TeardownPaths :
            OnFileSaved(t, p) =>
              /\ Len(docs'[t]) = Len(docs[t])
              /\ \A i \in Indices(docs[t]) :
                   /\ docs[t][i].path # p => docs'[t][i] = docs[t][i]
                   /\ docs'[t][i].path = docs[t][i].path
                   /\ docs'[t][i].lockToken = docs[t][i].lockToken
                   /\ docs'[t][i].readOnly = docs[t][i].readOnly
              /\ \A u \in Tabs \ {t} : docs'[u] = docs[u]
              /\ (~HasDoc(docs[t], p) \/ Find(docs[t], p).dirty) => tasks' = tasks
       /\ \A k \in InFlight(t) : \A ok \in BOOLEAN :
            ReloadFetch(t, k, ok) =>
              /\ Len(docs'[t]) = Len(docs[t])
              /\ \A i \in Indices(docs[t]) :
                   /\ docs[t][i].path # k.path => docs'[t][i] = docs[t][i]
                   /\ docs'[t][i].path = docs[t][i].path
                   /\ docs'[t][i].lockToken = docs[t][i].lockToken
                   /\ docs'[t][i].readOnly = docs[t][i].readOnly
              /\ \A u \in Tabs \ {t} : docs'[u] = docs[u]]_vars

\* the handler has started a fetch for one path in a tab that also shows a
\* dirty, editable session of another path holding its lock token
FileSavedFrameWitness ==
  \E t \in Tabs : \E k \in InFlight(t) : \E i \in Indices(docs[t]) :
    /\ k.kind = "reload"
    /\ HasDoc(docs[t], k.path)
    /\ docs[t][i].path # k.path
    /\ docs[t][i].dirty
    /\ HoldsLock(docs[t][i])

\* C39. Every editable session holds a credential: in every reachable state
\* a session with readOnly = false has a non-empty lockToken, also when the
\* acquire reply carried a token that is empty after normalization.
EditableHoldsCredential ==
  \A t \in Tabs : \A i \in Indices(docs[t]) :
    ~docs[t][i].readOnly => Truthy(docs[t][i].lockToken)
====
